---- MODULE Spec2Model ----
(***************************************************************************)
(* Quick-agent: the conversation turn controller (twilio_handler.py,       *)
(* QuickAgent.py) with its directive protocol and the appointment store.   *)
(*                                                                         *)
(* Text is modelled as a sequence of tokens: a token is a sentinel, the    *)
(* field separator "|", the blank " " or a word.  The Python string        *)
(* operations the handlers use (in, split, strip, split()[0]) are          *)
(* computed on these sequences.                                            *)
(***************************************************************************)
EXTENDS Integers, Sequences, FiniteSets, TLC

VARIABLES appointments, last_id, conversation_queues, chat_history, twiml,
          phase, request, local, last, handlers, clock, scheduler,
          reminder_calls

\* the state of the reminder process (appointment_reminder.py): the time its
\* datetime.now() reads, what its last step did, the calls it had created
schedVars == <<clock, scheduler, reminder_calls>>

\* handlers: the handle_input invocations that run side by side in threads
\* of the server, each with the local variables it holds between loading and
\* saving the state of its call
vars == <<appointments, last_id, conversation_queues, chat_history, twiml,
          phase, request, local, last, handlers, clock, scheduler,
          reminder_calls>>

(***************************************************************************)
(* Bounds of the model.                                                    *)
(***************************************************************************)
MaxAppointments == 2

(***************************************************************************)
(* Tokens.                                                                 *)
(***************************************************************************)
CHECK == "CHECK_APPOINTMENTS:"
BOOKED == "APPOINTMENT_BOOKED:"
CANCEL == "CANCEL_APPOINTMENT:"
RESCHEDULE == "RESCHEDULE_APPOINTMENT:"
CONFIRMED == "APPOINTMENT_CONFIRMED:"
ENDED == "CONVERSATION_ENDED"
PIPE == "|"
SP == " "

Sentinels == {CHECK, BOOKED, CANCEL, RESCHEDULE, CONFIRMED, ENDED}

(***************************************************************************)
(* Python string operations on token sequences.                            *)
(***************************************************************************)
\* tok in s
Contains(s, tok) == \E i \in DOMAIN s : s[i] = tok

\* position of the first occurrence of tok in s, 0 when there is none
IndexOf(s, tok) ==
    IF Contains(s, tok)
    THEN CHOOSE i \in DOMAIN s : s[i] = tok /\ \A j \in 1..(i - 1) : s[j] # tok
    ELSE 0

\* s.split(tok): the pieces of s between the occurrences of tok
RECURSIVE Split(_, _)
Split(s, tok) ==
    IF ~Contains(s, tok)
    THEN <<s>>
    ELSE LET i == IndexOf(s, tok)
         IN  <<SubSeq(s, 1, i - 1)>> \o Split(SubSeq(s, i + 1, Len(s)), tok)

\* s.strip(): leading and trailing blanks removed
RECURSIVE LStrip(_)
LStrip(s) == IF s # <<>> /\ Head(s) = SP THEN LStrip(Tail(s)) ELSE s

RECURSIVE RStrip(_)
RStrip(s) ==
    IF s # <<>> /\ s[Len(s)] = SP THEN RStrip(SubSeq(s, 1, Len(s) - 1)) ELSE s

Strip(s) == RStrip(LStrip(s))

\* s.split()[0]: the first blank-delimited word; Python raises IndexError
\* when s holds no word, which HasWord tells
HasWord(s) == LStrip(s) # <<>>

FirstWord(s) ==
    LET t == LStrip(s)
        i == IndexOf(t, SP)
    IN  IF i = 0 THEN t ELSE SubSeq(t, 1, i - 1)

\* str.lower() on the words the handlers look for
LowerTok(t) ==
    CASE t = "Book" -> "book"
      [] t = "What is your name" -> "what is your name"
      [] t = "What time" -> "what time"
      [] t = "Any notes" -> "any notes"
      [] t = "Ann" -> "ann"
      [] t = "Bob" -> "bob"
      [] t \in {"Monday", "MONDAY"} -> "monday"
      [] t = "Tuesday" -> "tuesday"
      [] t = "Wednesday" -> "wednesday"
      [] t = "Thursday" -> "thursday"
      [] t = "Friday" -> "friday"
      [] t = "Saturday" -> "saturday"
      [] t \in {"Sunday", "SUNDAY"} -> "sunday"
      [] t = "P" -> "p"
      [] t = "M" -> "m"
      [] t = "A" -> "a"
      [] OTHER -> t

Lower(s) == [i \in DOMAIN s |-> LowerTok(s[i])]

\* needle in hay, for a needle of several tokens (SQL LIKE '%needle%' is
\* case-insensitive)
IsInfix(needle, hay) ==
    \E i \in 0..(Len(hay) - Len(needle)) :
        \A j \in 1..Len(needle) : hay[i + j] = needle[j]

(***************************************************************************)
(* The appointment store (AppointmentDatabase, a SQLite table).            *)
(* status is "NULL" while the column is absent or unset.  created_at has   *)
(* a resolution of one second: two inserts may carry the same value.       *)
(***************************************************************************)
Appointment(id, name, time, notes, phone, created) ==
    [id |-> id, name |-> name, appointment_time |-> time, notes |-> notes,
     phone_number |-> phone, status |-> "NULL", created_at |-> created]

\* mutant: the new row takes the place of the newest one
SaveAppointmentOverwrites(store, id, name, time, notes, phone, sameSecond) ==
    LET prev == IF store = <<>> THEN 0 ELSE store[Len(store)].created_at
        row == Appointment(id, name, time, notes, phone, prev + 1)
    IN  IF store = <<>> THEN <<row>> ELSE [store EXCEPT ![Len(store)] = row]

\* mutant: the notes are not stored
SaveAppointmentWithoutNotes(store, id, name, time, notes, phone, sameSecond) ==
    LET prev == IF store = <<>> THEN 0 ELSE store[Len(store)].created_at
        created == IF sameSecond /\ prev > 0 THEN prev ELSE prev + 1
    IN  Append(store, Appointment(id, name, time, <<>>, phone, created))

\* INSERT INTO appointments ...: the row is appended under the next id
save_appointment(store, id, name, time, notes, phone, sameSecond) ==
    LET prev == IF store = <<>> THEN 0 ELSE store[Len(store)].created_at
        created == IF sameSecond /\ prev > 0 THEN prev ELSE prev + 1
    IN  Append(store, Appointment(id, name, time, notes, phone, created))

\* mutant: the UPDATE without its WHERE clause
UpdateStatusEverywhere(store, id, status) ==
    [i \in DOMAIN store |-> [store[i] EXCEPT !.status = status]]

\* mutant: every application leaves a trace in the notes
UpdateStatusAccumulating(store, id, status) ==
    [i \in DOMAIN store |->
        IF store[i].id = id
        THEN [store[i] EXCEPT !.status = status, !.notes = @ \o <<status>>]
        ELSE store[i]]

\* UPDATE appointments SET status = ? WHERE id = ?
UpdateStatus(store, id, status) ==
    [i \in DOMAIN store |->
        IF store[i].id = id THEN [store[i] EXCEPT !.status = status]
        ELSE store[i]]

\* mutant: the new time is not written
UpdateStatusOnly(store, id, time, status) ==
    [i \in DOMAIN store |->
        IF store[i].id = id THEN [store[i] EXCEPT !.status = status]
        ELSE store[i]]

\* UPDATE appointments SET appointment_time = ?, status = ? WHERE id = ?
UpdateTimeAndStatus(store, id, time, status) ==
    [i \in DOMAIN store |->
        IF store[i].id = id
        THEN [store[i] EXCEPT !.appointment_time = time, !.status = status]
        ELSE store[i]]

\* the rows WHERE name LIKE '%name%'
MatchingRows(store, name) ==
    {i \in DOMAIN store : IsInfix(Lower(name), Lower(store[i].name))}

\* SELECT ... WHERE name LIKE ? ORDER BY created_at DESC: every order of the
\* matching rows that SQLite may return (rows of one second in any order)
get_appointments_by_name(store, name) ==
    LET rows == MatchingRows(store, name)
        n == Cardinality(rows)
    IN  {[k \in 1..n |-> store[p[k]]] :
            p \in {q \in [1..n -> rows] :
                     /\ \A a, b \in 1..n : a # b => q[a] # q[b]
                     /\ \A a, b \in 1..n :
                           a < b => store[q[a]].created_at >= store[q[b]].created_at}}

(***************************************************************************)
(* The reminder context and its token on the callback URL.                 *)
(***************************************************************************)
NoToken == [kind |-> "none"]
BadToken == [kind |-> "bad"]

ReminderTypes == {"hours_36_before", "thirty_min_before", "general"}

\* the context make_reminder_call builds for an appointment
ReminderContext(appt, reminder_type) ==
    [appointment_id |-> appt.id, client_name |-> appt.name,
     appointment_time |-> appt.appointment_time, notes |-> appt.notes,
     reminder_type |-> reminder_type]

\* base64.urlsafe_b64encode(json.dumps(context))
EncodeContext(ctx) == [kind |-> "b64", json |-> ctx]

\* base64 + JSON decoding as handle_input does it: the decoded context, or
\* no context when there is no token or decoding raises
HasContext(token) == token.kind = "b64"

DecodeContext(token) == token.json

(***************************************************************************)
(* Spoken messages and TwiML responses.                                    *)
(***************************************************************************)
Msg(kind) == [kind |-> kind]

Say(m) == [verb |-> "Say", msg |-> m]
Hangup == [verb |-> "Hangup"]
Redirect(token) == [verb |-> "Redirect", token |-> token]
\* <Gather action="/handle-input[?reminder_context=token]">, with the
\* messages said while listening
Gather(token, says) == [verb |-> "Gather", token |-> token, says |-> says]

\* mutant: the action URL of the next turn never carries the token
ActionTokenDropped(token) == NoToken

\* the action URL of the next turn: the token is appended when it is truthy
ActionToken(token) == IF token.kind = "none" THEN NoToken ELSE token

ApologyResponse == <<Say(Msg("apology")), Hangup>>

(***************************************************************************)
(* ConversationState and the per-call queues.                              *)
(***************************************************************************)
FreshState == [intent |-> "None", booking_stage |-> "None"]

\* lines 219-232: the state of this turn and the queues after fetching it
LoadState(queues, c) ==
    IF c \notin DOMAIN queues
    THEN [state |-> FreshState, queues |-> queues @@ (c :> <<FreshState>>)]
    ELSE IF queues[c] # <<>>
         THEN [state |-> Head(queues[c]),
               queues |-> [queues EXCEPT ![c] = Tail(@)]]
         ELSE [state |-> FreshState, queues |-> queues]

\* lines 234-238
DetectIntent(state, user_input) ==
    IF state.intent = "None" /\ Contains(Lower(user_input), "book")
    THEN [intent |-> "booking", booking_stage |-> "need_name"]
    ELSE state

(***************************************************************************)
(* The directive protocol of handle_input.                                 *)
(***************************************************************************)
\* mutant: CONVERSATION_ENDED tested before the booking, as the local loop
\* does
BranchEndedFirst(reply, hasContext) ==
    IF Contains(reply, CHECK) THEN "check"
    ELSE IF Contains(reply, ENDED) THEN "ended"
    ELSE IF Contains(reply, BOOKED) THEN "booked"
    ELSE IF Contains(reply, CANCEL) /\ hasContext THEN "cancel"
    ELSE IF Contains(reply, RESCHEDULE) /\ hasContext THEN "reschedule"
    ELSE IF Contains(reply, CONFIRMED) /\ hasContext THEN "confirmed"
    ELSE "plain"

\* mutant: the reminder directives dispatched without looking at the context
BranchWithoutContext(reply, hasContext) ==
    IF Contains(reply, CHECK) THEN "check"
    ELSE IF Contains(reply, BOOKED) THEN "booked"
    ELSE IF Contains(reply, CANCEL) THEN "cancel"
    ELSE IF Contains(reply, RESCHEDULE) THEN "reschedule"
    ELSE IF Contains(reply, CONFIRMED) THEN "confirmed"
    ELSE IF Contains(reply, ENDED) THEN "ended"
    ELSE "plain"

\* the if / elif chain of lines 262-444
Branch(reply, hasContext) ==
    IF Contains(reply, CHECK) THEN "check"
    ELSE IF Contains(reply, BOOKED) THEN "booked"
    ELSE IF Contains(reply, CANCEL) /\ hasContext THEN "cancel"
    ELSE IF Contains(reply, RESCHEDULE) /\ hasContext THEN "reschedule"
    ELSE IF Contains(reply, CONFIRMED) /\ hasContext THEN "confirmed"
    ELSE IF Contains(reply, ENDED) THEN "ended"
    ELSE "plain"

\* llm_response.split(sentinel)[1].strip()
Payload(reply, sentinel) == Strip(Split(reply, sentinel)[2])

\* appointment_info.split("|")
BookedFields(reply) == Split(Payload(reply, BOOKED), PIPE)

\* lines 360-363
RescheduleName(reply) == Split(Payload(reply, RESCHEDULE), PIPE)[1]

RescheduleNewTime(reply) ==
    LET parts == Split(Payload(reply, RESCHEDULE), PIPE)
    IN  IF Len(parts) > 1 THEN parts[2] ELSE <<"a new time">>

\* lines 270-289: the spoken result of a lookup
CheckMessage(name, rows) ==
    IF Len(rows) = 0 THEN [kind |-> "check_none", name |-> name]
    ELSE IF Len(rows) = 1
         THEN [kind |-> "check_one", name |-> name,
               time |-> rows[1].appointment_time,
               notes |-> rows[1].notes]
         ELSE [kind |-> "check_many", name |-> name, n |-> Len(rows),
               times |-> [k \in 1..(IF Len(rows) > 3 THEN 3 ELSE Len(rows)) |->
                             rows[k].appointment_time],
               more |-> IF Len(rows) > 3 THEN Len(rows) - 3 ELSE 0]

\* lines 448-461: the booking stage inferred from the assistant's phrasing
NameIndicators ==
    {"what is your name", "may i have your name", "could i get your name"}
TimeIndicators == {"what time", "which day", "when would", "prefer to come"}
NotesIndicators ==
    {"any notes", "special requests", "anything else we should know"}

HasIndicator(reply, indicators) ==
    \E i \in DOMAIN reply : LowerTok(reply[i]) \in indicators

\* mutant: the stage is inferred from the reply whatever the intent
InferStageAnyIntent(state, reply) ==
    IF HasIndicator(reply, NameIndicators)
    THEN [state EXCEPT !.booking_stage = "need_name"]
    ELSE IF HasIndicator(reply, TimeIndicators)
    THEN [state EXCEPT !.booking_stage = "need_time"]
    ELSE IF HasIndicator(reply, NotesIndicators)
    THEN [state EXCEPT !.booking_stage = "need_notes"]
    ELSE state

InferStage(state, reply) ==
    IF state.intent # "booking" THEN state
    ELSE IF HasIndicator(reply, NameIndicators)
         THEN [state EXCEPT !.booking_stage = "need_name"]
    ELSE IF HasIndicator(reply, TimeIndicators)
         THEN [state EXCEPT !.booking_stage = "need_time"]
    ELSE IF HasIndicator(reply, NotesIndicators)
         THEN [state EXCEPT !.booking_stage = "need_notes"]
    ELSE state

(***************************************************************************)
(* handle_input (POST /handle-input): one voice turn.                      *)
(*   c, from, user_input, token: CallSid, From, SpeechResult and the       *)
(*   reminder_context parameter of the request;                            *)
(*   reply: what llm_processor.process returns, LLMRaises when it raises;  *)
(*   rows: the rows a lookup returns; sameSecond: the insert falls into    *)
(*   the second of the previous one.                                       *)
(* The result holds the store and queues after the turn, the TwiML         *)
(* response and a record of what the turn did.                             *)
(***************************************************************************)
LLMRaises == <<"<raise>">>

TurnResult(store, lid, queues, response, branch, outcome, state) ==
    [appointments |-> store, last_id |-> lid, queues |-> queues,
     response |-> response, branch |-> branch, outcome |-> outcome,
     state |-> state]

\* mutant: the re-prompt redirects to the handler again when nothing is said
EmptyInputRedirects(token) ==
    <<Gather(ActionToken(token), <<Msg("reprompt")>>),
      Redirect(ActionToken(token))>>

\* lines 200-217: no speech
EmptyInputResponse(token) ==
    <<Gather(ActionToken(token), <<Msg("reprompt")>>),
      Say(Msg("no_input_farewell")), Hangup>>

\* mutant: a silent listen period after the reply goes back to the handler
ContinueTurnRedirects(store, lid, queues, c, token, state, msg, need_follow_up, branch) ==
    TurnResult(store, lid, [queues EXCEPT ![c] = Append(@, state)],
               <<Say(msg),
                 Gather(ActionToken(token),
                        IF need_follow_up /\ state.booking_stage = "complete"
                        THEN <<Msg("follow_up")>> ELSE <<>>),
                 Redirect(ActionToken(token))>>,
               branch, "ok", state)

\* mutant: the follow-up is said whatever the booking stage
ContinueTurnFollowsUpAtAnyStage(store, lid, queues, c, token, state, msg, need_follow_up, branch) ==
    TurnResult(store, lid, [queues EXCEPT ![c] = Append(@, state)],
               <<Say(msg),
                 Gather(ActionToken(token),
                        IF need_follow_up
                        THEN <<Msg("follow_up")>> ELSE <<>>),
                 Say(Msg("goodbye")), Hangup>>,
               branch, "ok", state)

\* lines 470-492: the state is put back and the next input gathered
ContinueTurn(store, lid, queues, c, token, state, msg, need_follow_up, branch) ==
    TurnResult(store, lid, [queues EXCEPT ![c] = Append(@, state)],
               <<Say(msg),
                 Gather(ActionToken(token),
                        IF need_follow_up /\ state.booking_stage = "complete"
                        THEN <<Msg("follow_up")>> ELSE <<>>),
                 Say(Msg("goodbye")), Hangup>>,
               branch, "ok", state)

\* lines 494-503: the except clause of the turn
\* mutant: the failing turn hangs up without a word
FailTurnSilently(store, lid, queues, branch, state) ==
    TurnResult(store, lid, queues, <<Hangup>>, branch, "error", state)

FailTurn(store, lid, queues, branch, state) ==
    TurnResult(store, lid, queues, ApologyResponse, branch, "error", state)

\* lines 240-249: what is sent to the LLM, the utterance alone or framed as
\* the follow-up of the reminder call to the client
llm_prompt(user_input, token) ==
    IF HasContext(token)
    THEN [kind |-> "reminder_follow_up",
          first_name |-> FirstWord(DecodeContext(token).client_name),
          appointment_time |-> DecodeContext(token).appointment_time,
          text |-> user_input]
    ELSE [kind |-> "utterance", text |-> user_input]

\* mutant: the language model is asked even when nothing was said
LLMAnswersSilence(user_input, token, reply) ==
    /\ HasContext(token) => HasWord(DecodeContext(token).client_name)
    /\ reply # LLMRaises

\* lines 240-252: the turn reaches llm_processor.process and gets a reply
LLMAnswers(user_input, token, reply) ==
    /\ user_input # <<>>
    /\ HasContext(token) => HasWord(DecodeContext(token).client_name)
    /\ reply # LLMRaises

\* QuickAgent.py lines 186-258: the one ConversationBufferMemory of the
\* module-level llm_processor; every answered prompt is saved in it together
\* with its reply.  The buffer is kept as the set of the calls (or SMS
\* senders) whose exchanges it holds.
process(history, owner, answered) ==
    IF answered THEN history \cup {owner} ELSE history

\* mutant: the farewell is said but the state of the call is kept
EndTurnKeepsState(store, lid, queues, c, branch, state) ==
    TurnResult(store, lid, [queues EXCEPT ![c] = Append(@, state)],
               <<Say(Msg("farewell")), Hangup>>, branch, "ok", state)

\* lines 432-442: farewell, hangup, the queue of the call is deleted
EndTurn(store, lid, queues, c, branch, state) ==
    TurnResult(store, lid, [d \in DOMAIN queues \ {c} |-> queues[d]],
               <<Say(Msg("farewell")), Hangup>>, branch, "ok", state)

handle_input(store, lid, queues, c, from, user_input, token, reply, rows, sameSecond) ==
    LET hasContext == HasContext(token)
        ctx == DecodeContext(token)
        loaded == LoadState(queues, c)
        state == DetectIntent(loaded.state, user_input)
        q == loaded.queues
        branch == Branch(reply, hasContext)
    IN
    IF user_input = <<>>
    THEN TurnResult(store, lid, queues, EmptyInputResponse(token),
                    "no_input", "ok", FreshState)
    ELSE IF hasContext /\ ~HasWord(ctx.client_name)
    THEN FailTurn(store, lid, q, "none", state)          \* line 242
    ELSE IF reply = LLMRaises
    THEN FailTurn(store, lid, q, "none", state)          \* line 252
    ELSE CASE branch = "check" ->
              LET name == Payload(reply, CHECK)
              IN  ContinueTurn(store, lid, q, c, token,
                      [state EXCEPT !.intent = "check_appointments"],
                      CheckMessage(name, rows), TRUE, branch)
         [] branch = "booked" ->
              LET f == BookedFields(reply)
              IN  IF Len(f) # 3
                  THEN FailTurn(store, lid, q, branch, state)   \* line 294
                  ELSE LET saved == save_appointment(store, lid + 1, f[1],
                                        f[2], f[3], from, sameSecond)
                           done == [intent |-> "booking_complete",
                                    booking_stage |-> "complete"]
                       IN  IF ~HasWord(f[1])
                           THEN FailTurn(saved, lid + 1, q, branch, done)  \* line 317
                           ELSE ContinueTurn(saved, lid + 1, q, c, token, done,
                                   [kind |-> "booking_confirmation",
                                    name |-> FirstWord(f[1]), time |-> f[2]],
                                   FALSE, branch)
         [] branch \in {"cancel", "reschedule", "confirmed"} /\ ~hasContext ->
              FailTurn(store, lid, q, branch, state)   \* None has no .get
         [] branch = "cancel" ->
              LET name == Payload(reply, CANCEL)
              IN  ContinueTurn(
                      UpdateStatus(store, ctx.appointment_id, "cancelled"),
                      lid, q, c, token,
                      [state EXCEPT !.intent = "cancellation_complete"],
                      [kind |-> "cancel_ack", name |-> name], FALSE, branch)
         [] branch = "reschedule" ->
              LET name == RescheduleName(reply)
                  new_time == RescheduleNewTime(reply)
              IN  ContinueTurn(
                      UpdateTimeAndStatus(store, ctx.appointment_id, new_time,
                                          "rescheduled"),
                      lid, q, c, token,
                      [state EXCEPT !.intent = "reschedule_complete"],
                      [kind |-> "reschedule_ack", name |-> name,
                       time |-> new_time], FALSE, branch)
         [] branch = "confirmed" ->
              LET name == Payload(reply, CONFIRMED)
              IN  ContinueTurn(
                      UpdateStatus(store, ctx.appointment_id, "confirmed"),
                      lid, q, c, token,
                      [state EXCEPT !.intent = "confirmation_complete"],
                      [kind |-> "confirm_ack", name |-> name,
                       time |-> ctx.appointment_time], FALSE, branch)
         [] branch = "ended" ->
              EndTurn(store, lid, q, c, branch, state)
         [] OTHER ->
              LET inferred == InferStage(state, reply)
              IN  ContinueTurn(store, lid, q, c, token, inferred,
                      [kind |-> "plain", text |-> reply],
                      ~(inferred.intent = "booking"
                        /\ inferred.booking_stage # "complete"),
                      branch)

(***************************************************************************)
(* voice_webhook (POST /voice): the first turn of a call.                  *)
(***************************************************************************)
\* lines 74-77
EnsureQueue(queues, c) ==
    IF c \in DOMAIN queues THEN queues ELSE queues @@ (c :> <<>>)

\* lines 79-166: the TwiML of the first turn
voice_webhook(token, reply) ==
    IF token.kind # "none"
    THEN IF ~HasContext(token)                              \* line 84 raises
            \/ (LET name == DecodeContext(token).client_name  \* line 89 raises
                IN  name # <<>> /\ ~HasWord(name))
            \/ reply = LLMRaises                            \* line 108 raises
         THEN <<Say(Msg("reminder_trouble"))>>
         ELSE <<Gather(token, <<[kind |-> "plain", text |-> reply]>>),
                Redirect(token)>>
    ELSE IF reply = LLMRaises
         THEN ApologyResponse
         ELSE <<Gather(NoToken, <<[kind |-> "plain", text |-> reply]>>),
                Redirect(NoToken)>>

(***************************************************************************)
(* sms_webhook (POST /sms): one SMS turn.  It has no except clause: a      *)
(* raised error leaves the handler as an unhandled exception.              *)
(***************************************************************************)
SmsBranch(reply) ==
    IF Contains(reply, CHECK) THEN "check"
    ELSE IF Contains(reply, BOOKED) THEN "booked"
    ELSE IF Contains(reply, ENDED) THEN "ended"
    ELSE "plain"

\* lines 524-544
SmsCheckMessage(name, rows) ==
    IF Len(rows) = 0 THEN [kind |-> "check_none", name |-> name]
    ELSE IF Len(rows) = 1
         THEN [kind |-> "check_one", name |-> name,
               time |-> rows[1].appointment_time,
               notes |-> rows[1].notes]
         ELSE [kind |-> "sms_check_many", name |-> name, n |-> Len(rows),
               times |-> [k \in 1..Len(rows) |-> rows[k].appointment_time],
               list_notes |-> [k \in 1..Len(rows) |-> rows[k].notes]]

Unhandled(store, lid, queues, branch) ==
    TurnResult(store, lid, queues, <<>>, branch, "exception", FreshState)

Message(m) == [verb |-> "Message", msg |-> m]

\* lines 546-569: the booking branch, outside any try
SmsBooked(store, lid, queues, reply, from, sameSecond) ==
    LET f == BookedFields(reply)
    IN  IF Len(f) # 3
        THEN Unhandled(store, lid, queues, "booked")      \* line 549
        ELSE LET saved == save_appointment(store, lid + 1, f[1], f[2], f[3],
                                           from, sameSecond)
             IN  IF ~HasWord(f[1])
                 THEN Unhandled(saved, lid + 1, queues, "booked")  \* line 568
                 ELSE TurnResult(saved, lid + 1, queues,
                          <<Message([kind |-> "booking_confirmation",
                                     name |-> FirstWord(f[1]), time |-> f[2]])>>,
                          "booked", "ok", FreshState)

sms_webhook(store, lid, queues, from, reply, rows, sameSecond) ==
    LET branch == SmsBranch(reply)
    IN  IF reply = LLMRaises THEN Unhandled(store, lid, queues, "none")
        ELSE CASE branch = "check" ->
                  TurnResult(store, lid, queues,
                      <<Message(SmsCheckMessage(Payload(reply, CHECK), rows))>>,
                      branch, "ok", FreshState)
             [] branch = "booked" ->
                  SmsBooked(store, lid, queues, reply, from, sameSecond)
             [] branch = "ended" ->
                  TurnResult(store, lid, queues,
                      <<Message(Msg("sms_farewell"))>>, branch, "ok", FreshState)
             [] OTHER ->
                  TurnResult(store, lid, queues,
                      <<Message([kind |-> "plain", text |-> reply])>>,
                      branch, "ok", FreshState)

(***************************************************************************)
(* ConversationManager.main (QuickAgent.py): one pass of the local loop    *)
(* after the greeting.                                                     *)
(***************************************************************************)
LocalBranch(reply) ==
    IF Contains(reply, CHECK) THEN "check"
    ELSE IF Contains(reply, ENDED) THEN "ended"
    ELSE IF Contains(reply, BOOKED) THEN "booked"
    ELSE "plain"

\* QuickAgent.py lines 478-505: the booking branch, outside any try
LocalBooked(store, lid, queues, reply, sameSecond) ==
    LET f == BookedFields(reply)
    IN  IF Len(f) # 3
        THEN Unhandled(store, lid, queues, "booked")      \* line 481
        ELSE LET saved == save_appointment(store, lid + 1, f[1], f[2], f[3],
                                           "Unknown", sameSecond)
             IN  IF ~HasWord(f[1])
                 THEN Unhandled(saved, lid + 1, queues, "booked")  \* line 503
                 ELSE TurnResult(saved, lid + 1, queues,
                          <<Say([kind |-> "booking_confirmation",
                                 name |-> FirstWord(f[1]), time |-> f[2]])>>,
                          "booked", "ok", FreshState)

local_turn(store, lid, queues, reply, rows, sameSecond) ==
    LET branch == LocalBranch(reply)
    IN  IF reply = LLMRaises THEN Unhandled(store, lid, queues, "none")
        ELSE CASE branch = "check" ->
                  TurnResult(store, lid, queues,
                      <<Say(CheckMessage(Payload(reply, CHECK), rows))>>,
                      branch, "ok", FreshState)
             [] branch = "ended" ->
                  TurnResult(store, lid, queues, <<Say(Msg("farewell"))>>,
                             branch, "ok", FreshState)
             [] branch = "booked" ->
                  LocalBooked(store, lid, queues, reply, sameSecond)
             [] OTHER ->
                  TurnResult(store, lid, queues,
                      <<Say([kind |-> "plain", text |-> reply])>>,
                      branch, "ok", FreshState)

(***************************************************************************)
(* The environment: calls, callers, and what the LLM may answer.           *)
(***************************************************************************)
CallIds == {"CA1", "CA2"}

\* the calls that are placed
Calls == DOMAIN phase

\* the From field of a call's webhooks: the caller on an inbound call, the
\* system's own number (TWILIO_PHONE_NUMBER) on an outbound one
CallerPhone(c) == IF c = "CA1" THEN "+15550101" ELSE "+15550102"
TWILIO_PHONE_NUMBER == "+15550100"
TwilioPhone == TWILIO_PHONE_NUMBER

\* the number make_reminder_call dials for an appointment
TEST_CLIENT_PHONE == "+15551234567"
ClientPhone(appointment) ==
    IF appointment.phone_number = "" THEN TEST_CLIENT_PHONE
    ELSE appointment.phone_number
SmsSenders == {"+15550101"}

Utterances == {<<>>, <<"hello">>, <<"Book">>}

PlainReplies == {<<"hello">>, <<"What time">>}

DirectiveReplies ==
    {<<CHECK, SP, "Ann">>,
     <<BOOKED, SP, "Ann", PIPE, "Tue", PIPE, "ID">>,
     <<BOOKED, SP, "Bob", SP, "Lee", PIPE, "Tue", PIPE>>,
     <<BOOKED, SP, "Ann", PIPE, "Tue">>,
     <<BOOKED, PIPE, "Tue", PIPE>>,
     <<CANCEL, SP, "Ann">>,
     <<CANCEL, SP, "Bob">>,
     <<RESCHEDULE, SP, "Ann", PIPE, "Wed">>,
     <<RESCHEDULE, SP, "Ann">>,
     <<RESCHEDULE, SP, "Ann", SP, PIPE, SP, "Wed">>,
     <<CONFIRMED, SP, "Ann">>,
     <<ENDED>>}

\* replies that hold several sentinels
MixedReplies ==
    {<<ENDED, SP, BOOKED, SP, "Ann", PIPE, "Tue", PIPE, "ID">>,
     <<CANCEL, SP, "Ann", SP, ENDED>>,
     <<CONFIRMED, SP, "Ann", SP, CANCEL, SP, "Ann">>,
     <<RESCHEDULE, SP, "Ann", PIPE, "Wed", SP, CHECK, SP, "Ann">>}

Replies == PlainReplies \cup DirectiveReplies \cup MixedReplies

LLMOutcomes == Replies \cup {LLMRaises}

\* what the LLM may answer to the opening prompt of a call
GreetingOutcomes == {<<"hello">>, <<CONFIRMED, SP, "Ann">>, LLMRaises}

(***************************************************************************)
(* How Twilio runs a TwiML response: the verbs in order; a <Gather> that   *)
(* hears speech posts it to its action URL, a <Gather> that times out      *)
(* falls through to the verb after it; <Hangup> or the end of the          *)
(* document ends the call.                                                 *)
(***************************************************************************)
HasGather(response) == \E i \in DOMAIN response : response[i].verb = "Gather"

GatherIndex(response) ==
    CHOOSE i \in DOMAIN response : response[i].verb = "Gather"

\* the verbs left to run when the <Gather> times out
AfterGather(response) ==
    SubSeq(response, GatherIndex(response) + 1, Len(response))

FallsToRedirect(response) ==
    AfterGather(response) # <<>> /\ Head(AfterGather(response)).verb = "Redirect"

PhaseAfter(response) == IF HasGather(response) THEN "listening" ELSE "ended"

NoRequest ==
    [url |-> "none", From |-> "", To |-> "", SpeechResult |-> <<>>,
     token |-> NoToken]

\* what the step just taken did
LogOf(op, c, reply, branch, outcome) ==
    [op |-> op, call |-> c, reply |-> reply, branch |-> branch,
     outcome |-> outcome]

Log(op, c, reply, r) == LogOf(op, c, reply, r.branch, r.outcome)

\* appointments the database file may hold when the server starts
SeedAnn == Appointment(1, <<"Ann">>, <<"Tue">>, <<"ID">>, "+15550101", 1)
SeedBob == Appointment(2, <<"Bob", SP, "Lee">>, <<"Tue">>, <<>>, "+15550102", 2)
SeedStores == {<<>>, <<SeedAnn>>, <<SeedAnn, SeedBob>>}

\* the server has started: no call has a queue yet
InitWith(calls, stores) ==
    /\ appointments \in stores
    /\ last_id = Len(appointments)
    /\ conversation_queues = [c \in {} |-> <<>>]
    /\ chat_history = {}
    /\ twiml = [c \in calls |-> <<>>]
    /\ phase = [c \in calls |-> "idle"]
    /\ request = [c \in calls |-> NoRequest]
    /\ local = "first"
    /\ last = LogOf("init", "", <<>>, "none", "ok")
    /\ handlers = <<>>

\* the reminder process has not run
SchedulerIdle ==
    /\ clock = 0
    /\ scheduler = [op |-> "idle"]
    /\ reminder_calls = <<>>

Init == InitWith({"CA1"}, SeedStores) /\ SchedulerIdle

\* the rows a lookup for this reply may return
LookupRows(reply) ==
    IF reply # LLMRaises /\ Contains(reply, CHECK)
    THEN get_appointments_by_name(appointments, Payload(reply, CHECK))
    ELSE {<<>>}

InsertSeconds(reply) == IF Contains(reply, BOOKED) THEN BOOLEAN ELSE {FALSE}

\* Twilio posts the first webhook of call c to /voice
StartCall(c, from, to, token) ==
    /\ phase[c] = "idle"
    /\ \E reply \in GreetingOutcomes :
          LET response == voice_webhook(token, reply)
          IN  /\ conversation_queues' = EnsureQueue(conversation_queues, c)
              /\ chat_history' = process(chat_history, c, HasGather(response))
              /\ twiml' = [twiml EXCEPT ![c] = response]
              /\ phase' = [phase EXCEPT ![c] = PhaseAfter(response)]
              /\ request' = [request EXCEPT ![c] =
                    [url |-> "/voice", From |-> from, To |-> to,
                     SpeechResult |-> <<>>,
                     token |-> token]]
              /\ last' = LogOf("voice_webhook", c, reply, "none",
                                IF HasGather(response) THEN "ok" ELSE "error")
    /\ UNCHANGED <<appointments, last_id, local>>
    /\ UNCHANGED <<schedVars, handlers>>

InboundCall(c) == StartCall(c, CallerPhone(c), TwilioPhone, NoToken)

\* make_reminder_call places a call whose callback URL carries the context
\* of an appointment; a token damaged on the way does not decode
ReminderCall(c) ==
    \E i \in DOMAIN appointments, type \in ReminderTypes, damaged \in BOOLEAN :
        StartCall(c, TwilioPhone, ClientPhone(appointments[i]),
                  IF damaged THEN BadToken
                  ELSE EncodeContext(ReminderContext(appointments[i], type)))

\* a request to /handle-input for call c runs the handler; the LLM is not
\* asked on an empty SpeechResult
RunHandleInput(c, req, op, outcomes) ==
    \E reply \in (IF req.SpeechResult = <<>> THEN {<<>>} ELSE outcomes) :
    \E rows \in LookupRows(reply), sameSecond \in InsertSeconds(reply) :
        \E r \in {handle_input(appointments, last_id, conversation_queues, c,
                                req.From, req.SpeechResult, req.token, reply,
                                rows, sameSecond)} :
            /\ Len(r.appointments) <= MaxAppointments
            /\ appointments' = r.appointments
            /\ last_id' = r.last_id
            /\ conversation_queues' = r.queues
            /\ chat_history' = process(chat_history, c,
                                   LLMAnswers(req.SpeechResult, req.token, reply))
            /\ request' = [request EXCEPT ![c] = req]
            /\ last' = Log(op, c, reply, r)
            /\ IF op \in {"duplicate", "late"}
               THEN UNCHANGED <<twiml, phase>>
               ELSE /\ twiml' = [twiml EXCEPT ![c] = r.response]
                    /\ phase' = [phase EXCEPT ![c] = PhaseAfter(r.response)]
            /\ UNCHANGED local
            /\ UNCHANGED <<schedVars, handlers>>

\* the caller says something while the <Gather> listens
Speaks(c, outcomes) ==
    /\ phase[c] = "listening"
    /\ \E speech \in Utterances \ {<<>>} :
          RunHandleInput(c, [url |-> "/handle-input", From |-> request[c].From,
                             To |-> request[c].To,
                             SpeechResult |-> speech,
                             token |-> twiml[c][GatherIndex(twiml[c])].token],
                         "handle_input", outcomes)

CallerSpeaks(c) == Speaks(c, LLMOutcomes)

\* the <Gather> times out and the next verb is a <Redirect> to the handler
ListenTimeoutRedirect(c) ==
    /\ phase[c] = "listening"
    /\ FallsToRedirect(twiml[c])
    /\ RunHandleInput(c, [url |-> "/handle-input", From |-> request[c].From,
                             To |-> request[c].To,
                          SpeechResult |-> <<>>,
                          token |-> Head(AfterGather(twiml[c])).token],
                      "handle_input", LLMOutcomes)

\* the <Gather> times out and the verbs after it are said, then <Hangup>
ListenTimeoutHangup(c) ==
    /\ phase[c] = "listening"
    /\ ~FallsToRedirect(twiml[c])
    /\ phase' = [phase EXCEPT ![c] = "ended"]
    /\ last' = LogOf("timeout_hangup", c, <<>>, "none", "ok")
    /\ UNCHANGED <<appointments, last_id, conversation_queues, chat_history,
                   twiml, request, local>>
    /\ UNCHANGED <<schedVars, handlers>>

\* the caller hangs up; no webhook tells the server
CallerHangsUp(c) ==
    /\ phase[c] = "listening"
    /\ phase' = [phase EXCEPT ![c] = "ended"]
    /\ last' = LogOf("caller_hangup", c, <<>>, "none", "ok")
    /\ UNCHANGED <<appointments, last_id, conversation_queues, chat_history,
                   twiml, request, local>>
    /\ UNCHANGED <<schedVars, handlers>>

\* the /handle-input request just handled is delivered once more (a retried
\* webhook) and the LLM answers it as before; Twilio goes on with the
\* response it already has
DuplicateDelivery(c) ==
    /\ last.call = c
    /\ last.op \in {"handle_input", "duplicate"}
    /\ RunHandleInput(c, request[c], "duplicate", {last.reply})

\* a /handle-input request for call c arrives after the turn that ended the
\* call (a delayed or repeated webhook); nobody listens to the response
LateDelivery(c) ==
    /\ phase[c] = "ended"
    /\ last.call = c
    /\ last.op \in {"handle_input", "duplicate"}
    /\ last.branch = "ended"
    /\ \E speech \in Utterances \ {<<>>} :
          RunHandleInput(c, [request[c] EXCEPT !.SpeechResult = speech],
                         "late", LLMOutcomes)

\* an SMS arrives
SmsTurnWith(outcomes) ==
    \E from \in SmsSenders, reply \in outcomes :
    \E rows \in LookupRows(reply), sameSecond \in InsertSeconds(reply) :
        \E r \in {sms_webhook(appointments, last_id, conversation_queues, from,
                               reply, rows, sameSecond)} :
            /\ Len(r.appointments) <= MaxAppointments
            /\ appointments' = r.appointments
            /\ last_id' = r.last_id
            /\ last' = Log("sms_webhook", from, reply, r)
            /\ chat_history' = process(chat_history, from, reply # LLMRaises)
            /\ UNCHANGED <<conversation_queues, twiml, phase, request, local>>
            /\ UNCHANGED <<schedVars, handlers>>

\* POST /sms with any answer of the LLM
SmsTurn == SmsTurnWith(LLMOutcomes)

\* QuickAgent.py lines 423-427: the local assistant greets
LocalGreeting ==
    /\ local = "first"
    /\ \E reply \in GreetingOutcomes :
          /\ local' = IF reply = LLMRaises THEN "crashed" ELSE "active"
          /\ last' = LogOf("local_greeting", "local", reply, "none",
                            IF reply = LLMRaises THEN "exception" ELSE "ok")
    /\ UNCHANGED <<appointments, last_id, conversation_queues, chat_history,
                   twiml, phase, request>>
    /\ UNCHANGED <<schedVars, handlers>>

\* one pass of the local loop
LocalTurnWith(outcomes) ==
    /\ local = "active"
    /\ \E reply \in outcomes :
       \E rows \in LookupRows(reply), sameSecond \in InsertSeconds(reply) :
          \E r \in {local_turn(appointments, last_id, conversation_queues,
                                reply, rows, sameSecond)} :
              /\ Len(r.appointments) <= MaxAppointments
              /\ appointments' = r.appointments
              /\ last_id' = r.last_id
              /\ local' = IF r.outcome = "exception" THEN "crashed"
                          ELSE IF r.branch = "ended" THEN "ended"
                          ELSE "active"
              /\ last' = Log("local_turn", "local", reply, r)
              /\ UNCHANGED <<conversation_queues, chat_history, twiml, phase,
                             request>>
              /\ UNCHANGED <<schedVars, handlers>>

LocalTurn == LocalTurnWith(LLMOutcomes)

VoiceNext ==
    \/ \E c \in Calls : InboundCall(c)
    \/ \E c \in Calls : ReminderCall(c)
    \/ \E c \in Calls : CallerSpeaks(c)
    \/ \E c \in Calls : ListenTimeoutRedirect(c)
    \/ \E c \in Calls : ListenTimeoutHangup(c)
    \/ \E c \in Calls : CallerHangsUp(c)
    \/ \E c \in Calls : DuplicateDelivery(c)
    \/ \E c \in Calls : LateDelivery(c)

TextNext ==
    \/ SmsTurn
    \/ LocalGreeting
    \/ LocalTurn

Next == VoiceNext

\* two inbound calls at the same time, with the replies of a short
\* conversation
TwoCallOutcomes == {<<"hello">>, <<"What time">>, <<ENDED>>, LLMRaises}

TwoCallNext ==
    \/ \E c \in Calls : InboundCall(c)
    \/ \E c \in Calls : Speaks(c, TwoCallOutcomes)
    \/ \E c \in Calls : ListenTimeoutRedirect(c)
    \/ \E c \in Calls : ListenTimeoutHangup(c)
    \/ \E c \in Calls : CallerHangsUp(c)

TwoCallInit == InitWith(CallIds, {<<>>}) /\ SchedulerIdle

TwoCallSpec == TwoCallInit /\ [][TwoCallNext]_vars

\* the tokens a /handle-input request may carry
RequestTokens ==
    {NoToken, BadToken} \cup
    {EncodeContext(ReminderContext(appointments[i], type)) :
        i \in DOMAIN appointments, type \in ReminderTypes}

\* POST /handle-input is an open route: a request for a CallSid that never
\* went through /voice, with any query token and any SpeechResult
DirectRequest(c) ==
    /\ phase[c] = "idle"
    /\ \E token \in RequestTokens, speech \in Utterances :
          RunHandleInput(c, [url |-> "/handle-input", From |-> CallerPhone(c),
                             To |-> TwilioPhone,
                             SpeechResult |-> speech, token |-> token],
                         "handle_input", LLMOutcomes)

RequestNext == \E c \in Calls : DirectRequest(c)

\* handle_input applied once to every request
RequestSpec == Init /\ [][RequestNext]_vars

\* one phone call at a time, the appointments of earlier runs in the store
Spec == Init /\ [][Next]_vars

\* the three dispatchers side by side: each is applied once to every reply
\* of the LLM over every store (the local loop after its greeting)
DispatchNext ==
    \/ last.op = "init" /\ \E c \in Calls : DirectRequest(c)
    \/ last.op = "init" /\ SmsTurn
    \/ last.op = "init" /\ LocalGreeting
    \/ last.op = "local_greeting" /\ LocalTurn

DispatchSpec == Init /\ [][DispatchNext]_vars

\* the three channels side by side over one store and one language model:
\* a phone call, text messages and the local loop, with the replies that
\* add or change an appointment or end the conversation
ChannelOutcomes ==
    {<<"hello">>, <<BOOKED, SP, "Ann", PIPE, "Tue", PIPE, "ID">>,
     <<RESCHEDULE, SP, "Ann", PIPE, "Wed">>, <<ENDED>>}

ChannelNext ==
    \/ \E c \in Calls : InboundCall(c)
    \/ \E c \in Calls : ReminderCall(c)
    \/ \E c \in Calls : Speaks(c, ChannelOutcomes)
    \/ \E c \in Calls : CallerHangsUp(c)
    \/ SmsTurnWith(ChannelOutcomes)
    \/ LocalGreeting
    \/ LocalTurnWith(ChannelOutcomes)

\* one appointment of an earlier run is in the store
ChannelInit == InitWith({"CA1"}, {<<SeedAnn>>}) /\ SchedulerIdle

ChannelSpec == ChannelInit /\ [][ChannelNext]_vars

\* DELETE FROM appointments WHERE id = ? (appointment_manager.py delete)
delete_appointment(store, id) == SelectSeq(store, LAMBDA row : row.id # id)

\* the administrator deletes an appointment with the command-line manager
AdminDeletes ==
    /\ \E i \in DOMAIN appointments :
          appointments' = delete_appointment(appointments, appointments[i].id)
    /\ last' = LogOf("delete", "", <<>>, "none", "ok")
    /\ UNCHANGED <<last_id, conversation_queues, chat_history, twiml, phase,
                   request, local>>
    /\ UNCHANGED <<schedVars, handlers>>

\* what the language model answers during a reminder call
AdminOutcomes ==
    {<<"hello">>, <<CANCEL, SP, "Ann">>, <<RESCHEDULE, SP, "Ann", PIPE, "Wed">>,
     <<CONFIRMED, SP, "Ann">>}

\* reminder calls while the administrator manages the appointments
AdminNext ==
    \/ \E c \in Calls : ReminderCall(c)
    \/ \E c \in Calls : Speaks(c, AdminOutcomes)
    \/ \E c \in Calls : CallerHangsUp(c)
    \/ AdminDeletes

AdminInit == InitWith({"CA1"}, {<<SeedAnn>>, <<SeedAnn, SeedBob>>}) /\ SchedulerIdle

AdminSpec == AdminInit /\ [][AdminNext]_vars

\* the threads of the server that may run handle_input at the same time
\* (app.run serves every request in a thread of its own)
Threads == {"T1", "T2"}

\* what the language model answers to the overlapping requests
ConcurrentOutcomes ==
    {<<"hello">>, <<"What time">>,
     <<BOOKED, SP, "Ann", PIPE, "Tue", PIPE, "ID">>}

\* a /handle-input request of call c reaches thread t, which runs up to the
\* call of the language model: it takes the state out of the queue of the
\* call (lines 219-232)
HandlerLoads(t, c) ==
    /\ t \notin DOMAIN handlers
    /\ phase[c] = "listening"
    /\ c \in DOMAIN conversation_queues
    /\ \E speech \in Utterances \ {<<>>} :
          LET loaded == LoadState(conversation_queues, c)
          IN  /\ conversation_queues' = loaded.queues
              /\ handlers' = handlers @@
                    (t :> [pc |-> "loaded", call |-> c, SpeechResult |-> speech,
                           state |-> loaded.state, outcome |-> "ok"])
    /\ last' = LogOf("load", c, <<>>, "none", "ok")
    /\ UNCHANGED <<appointments, last_id, chat_history, twiml, phase, request,
                   local>>
    /\ UNCHANGED schedVars

\* the language model has answered thread t: the rest of handle_input runs
\* on the state the thread holds and puts it into the queue (lines 234-492);
\* Twilio goes on with the response it already has
HandlerSaves(t) ==
    /\ t \in DOMAIN handlers
    /\ handlers[t].pc = "loaded"
    /\ LET h == handlers[t]
           c == h.call
           held == [conversation_queues EXCEPT ![c] = <<h.state>> \o @]
       IN  \E reply \in ConcurrentOutcomes :
           \E rows \in LookupRows(reply), sameSecond \in InsertSeconds(reply) :
           \E r \in {handle_input(appointments, last_id, held, c,
                                   request[c].From, h.SpeechResult,
                                   request[c].token, reply, rows, sameSecond)} :
               /\ Len(r.appointments) <= MaxAppointments
               /\ appointments' = r.appointments
               /\ last_id' = r.last_id
               /\ conversation_queues' = r.queues
               /\ chat_history' = process(chat_history, c, TRUE)
               /\ handlers' = [handlers EXCEPT ![t].pc = "done",
                                               ![t].state = r.state,
                                               ![t].outcome = r.outcome]
               /\ last' = Log("save", c, reply, r)
    /\ UNCHANGED <<twiml, phase, request, local>>
    /\ UNCHANGED schedVars

\* one call whose /handle-input requests overlap
ConcurrentNext ==
    \/ \E c \in Calls : InboundCall(c)
    \/ \E c \in Calls : Speaks(c, ConcurrentOutcomes)
    \/ \E t \in Threads, c \in Calls : HandlerLoads(t, c)
    \/ \E t \in Threads : HandlerSaves(t)

ConcurrentInit == InitWith({"CA1"}, {<<>>}) /\ SchedulerIdle

ConcurrentSpec == ConcurrentInit /\ [][ConcurrentNext]_vars

(***************************************************************************)
(* The reminder process (appointment_reminder.py).  A datetime is the      *)
(* number of seconds since 00:00:00 of a Monday.  The text of a time is a  *)
(* weekday word, the separator " at " and the characters of the time.      *)
(***************************************************************************)
AT == " at "
COLON == ":"

DigitChars == <<"0", "1", "2", "3", "4", "5", "6", "7", "8", "9">>

IsDigitChar(ch) == \E d \in DOMAIN DigitChars : DigitChars[d] = ch

DigitValue(ch) == (CHOOSE d \in DOMAIN DigitChars : DigitChars[d] = ch) - 1

\* str.isdigit()
isdigit(s) == s # <<>> /\ \A i \in DOMAIN s : IsDigitChar(s[i])

\* int(s) raises ValueError unless s, blanks stripped, is made of digits
IntParses(s) == isdigit(Strip(s))

RECURSIVE DigitsValue(_)
DigitsValue(s) ==
    IF s = <<>> THEN 0
    ELSE DigitsValue(SubSeq(s, 1, Len(s) - 1)) * 10 + DigitValue(s[Len(s)])

int(s) == DigitsValue(Strip(s))

\* lines 54-57; -1 stands for None
weekday_map(day) ==
    CASE day = <<"monday">> -> 0
      [] day = <<"tuesday">> -> 1
      [] day = <<"wednesday">> -> 2
      [] day = <<"thursday">> -> 3
      [] day = <<"friday">> -> 4
      [] day = <<"saturday">> -> 5
      [] day = <<"sunday">> -> 6
      [] OTHER -> -1

SecondsPerDay == 24 * 60 * 60

\* datetime.weekday(), .hour, .minute, .second
weekday(t) == (t \div SecondsPerDay) % 7
hour_of(t) == (t % SecondsPerDay) \div 3600
minute_of(t) == (t % 3600) \div 60
second_of(t) == t % 60

\* (None, None)
NotParsed == [ok |-> FALSE]

\* mutant: a time of today that has passed stays on today
DaysUntilWithoutRoll(target_weekday, hour, minute, today) ==
    (target_weekday - weekday(today)) % 7

\* lines 83-88: the days from today to the weekday, a week when the time
\* of today has passed
DaysUntil(target_weekday, hour, minute, today) ==
    LET days_until == (target_weekday - weekday(today)) % 7
    IN  IF days_until = 0
           /\ (\/ hour < hour_of(today)
               \/ hour = hour_of(today) /\ minute <= minute_of(today))
        THEN 7 ELSE days_until

\* lines 46-98
parse_appointment_time(appointment_time, today) ==
    LET halves == Split(Lower(appointment_time), AT)
    IN
    IF Len(halves) # 2 THEN NotParsed                       \* line 61 raises
    ELSE
    LET day == Strip(halves[1])
        time_str == halves[2]
        time_parts == Split(Strip(time_str), COLON)
        clock_form == Len(time_parts) = 2 /\ isdigit(time_parts[2])
    IN
    IF ~IntParses(time_parts[1]) THEN NotParsed            \* int() raises
    ELSE
    LET hour == IF clock_form THEN int(time_parts[1])
                ELSE IF IsInfix(<<"p", "m">>, Lower(time_str))
                        /\ int(time_parts[1]) < 12
                     THEN int(time_parts[1]) + 12
                     ELSE int(time_parts[1])
        minute == IF clock_form THEN int(time_parts[2]) ELSE 0
        target_weekday == weekday_map(day)
        days_until == DaysUntil(target_weekday, hour, minute, today)
    IN
    IF target_weekday = -1 THEN NotParsed
    ELSE IF hour > 23 \/ minute > 59 THEN NotParsed        \* replace() raises
    ELSE [ok |-> TRUE,
          datetime |-> today - (today % SecondsPerDay)
                          + days_until * SecondsPerDay
                          + hour * 3600 + minute * 60,
          days_until |-> days_until]

\* the reminder windows, in hundredths of an hour (lines 115-120)
hours_36_before_start == 3625
hours_36_before_end == 3575
thirty_min_before_start == 58
thirty_min_before_end == 42

\* mutant: the limits of the windows do not belong to them
ShouldSendReminderExclusive(appointment_datetime, now) ==
    LET seconds == appointment_datetime - now
    IN  IF hours_36_before_end * 36 < seconds
           /\ seconds < hours_36_before_start * 36
        THEN "hours_36_before"
        ELSE IF thirty_min_before_end * 36 < seconds
                /\ seconds < thirty_min_before_start * 36
        THEN "thirty_min_before"
        ELSE "False"

\* mutant: the near window reaches from 20 to 40 minutes
ShouldSendReminderWide(appointment_datetime, now) ==
    LET seconds == appointment_datetime - now
    IN  IF hours_36_before_end * 36 <= seconds
           /\ seconds <= hours_36_before_start * 36
        THEN "hours_36_before"
        ELSE IF 20 * 60 <= seconds /\ seconds <= 40 * 60
        THEN "thirty_min_before"
        ELSE "False"

\* lines 100-128, with the reading of datetime.now() as now; "False" when
\* it is not time for a reminder.  hours_until_appointment is seconds / 3600,
\* so a window limit of x hundredths of an hour is x * 36 seconds.
should_send_reminder(appointment_datetime, now) ==
    LET seconds == appointment_datetime - now
    IN  IF hours_36_before_end * 36 <= seconds
           /\ seconds <= hours_36_before_start * 36
        THEN "hours_36_before"
        ELSE IF thirty_min_before_end * 36 <= seconds
                /\ seconds <= thirty_min_before_start * 36
        THEN "thirty_min_before"
        ELSE "False"

\* the weekday words of appointment times, as written and in other cases
WeekdayNames ==
    <<"Monday", "Tuesday", "Wednesday", "Thursday", "Friday", "Saturday",
      "Sunday">>
WeekdayWords == {WeekdayNames[i] : i \in DOMAIN WeekdayNames}
                   \cup {"MONDAY", "friday", "SUNDAY"}

SampleHours == {0, 7, 8, 9, 20, 23}
SampleMinutes == {0, 20, 30, 50, 59}
SampleSeconds == {0, 30}

TwoDigits(n) == <<DigitChars[(n \div 10) + 1], DigitChars[(n % 10) + 1]>>
Digits(n) == IF n < 10 THEN <<DigitChars[n + 1]>> ELSE TwoDigits(n)

\* "<Weekday> at <H>:<MM>" and "<Weekday> at <HH>:<MM>"
ClockText(day, hour_chars, m) == <<day, AT>> \o hour_chars \o <<COLON>> \o TwoDigits(m)

ClockTexts ==
    {ClockText(day, Digits(h), m) :
        day \in WeekdayWords, h \in SampleHours, m \in SampleMinutes}
    \cup {ClockText(day, TwoDigits(h), 0) : day \in {"Monday"}, h \in SampleHours}

\* "<Weekday> at 4 PM" and its relatives
PmTexts ==
    {<<day, AT>> \o Digits(h) \o tail :
        day \in {"Monday", "Wednesday"}, h \in {4, 11, 12},
        tail \in {<<SP, "P", "M">>, <<"p", "m">>, <<SP, "A", "M">>,
                  <<COLON, "0", "0", SP, "P", "M">>,
                  <<COLON, "3", "0", SP, "p", "m">>}}

\* texts that name no time the parser knows
OddTexts ==
    {<<"Tue">>, <<"a", SP, "new", SP, "time">>, <<"Monday", AT, "n", "o", "o", "n">>,
     <<"Someday", AT, "9", COLON, "0", "0">>, <<"Monday", AT, "9">>,
     <<"Monday", AT, "2", "5", COLON, "0", "0">>,
     <<"Monday", AT, "9", COLON, "7", "5">>,
     <<"Monday", AT, "9", COLON, "0", "0", AT, "1", "0">>,
     <<SP, "Monday", SP, AT, SP, "9", COLON, "0", "0", SP>>}

TimeTexts == ClockTexts \cup PmTexts \cup OddTexts

At(day, h, m, sec) == day * SecondsPerDay + h * 3600 + m * 60 + sec

Nows ==
    {At(day, h, m, sec) :
        day \in 0..6, h \in SampleHours, m \in SampleMinutes,
        sec \in SampleSeconds}

\* times until the appointment around the limits of the two windows
Remainders ==
    UNION {{x * 36 - 1, x * 36, x * 36 + 1} :
             x \in {hours_36_before_start, hours_36_before_end,
                    thirty_min_before_start, thirty_min_before_end}}
    \cup {-3600, 0, 1800, 2400, 7200, 36 * 3600, 36 * 3600 + 600}

\* parse_appointment_time is called with an appointment's time text
ParseTime ==
    /\ scheduler.op = "idle"
    /\ \E text \in TimeTexts :
          scheduler' = [op |-> "parse", text |-> text,
                        parsed |-> parse_appointment_time(text, clock)]
    /\ UNCHANGED <<appointments, last_id, conversation_queues, chat_history,
                   twiml, phase, request, local, last, handlers, clock, reminder_calls>>

\* should_send_reminder is called with the datetime just parsed
ClassifyParsed ==
    /\ scheduler.op = "parse"
    /\ scheduler.parsed.ok
    /\ scheduler' = [op |-> "classify", text |-> scheduler.text,
                     datetime |-> scheduler.parsed.datetime,
                     kind |-> should_send_reminder(scheduler.parsed.datetime,
                                                   clock)]
    /\ UNCHANGED <<appointments, last_id, conversation_queues, chat_history,
                   twiml, phase, request, local, last, handlers, clock, reminder_calls>>

\* should_send_reminder is called with any datetime
ClassifyDatetime ==
    /\ scheduler.op = "idle"
    /\ \E remaining \in Remainders :
          scheduler' = [op |-> "classify", text |-> <<>>,
                        datetime |-> clock + remaining,
                        kind |-> should_send_reminder(clock + remaining, clock)]
    /\ UNCHANGED <<appointments, last_id, conversation_queues, chat_history,
                   twiml, phase, request, local, last, handlers, clock, reminder_calls>>

TimeNext == ParseTime \/ ClassifyParsed \/ ClassifyDatetime

\* the two functions of the time-window evaluation, applied at every
\* reading of the clock
TimeInit ==
    /\ InitWith({}, {<<>>})
    /\ clock \in Nows
    /\ scheduler = [op |-> "idle"]
    /\ reminder_calls = <<>>

TimeSpec == TimeInit /\ [][TimeNext]_vars

(***************************************************************************)
(* The scheduler sweep (check_upcoming_appointments) and the outbound      *)
(* reminder call (make_reminder_call).  reminder_calls is the sequence of  *)
(* requests made to Twilio's calls.create, each with what Twilio did with  *)
(* it.  One sweep reads the clock once per appointment and per function;   *)
(* the model takes one reading for the whole sweep.  update_appointment_   *)
(* reminder_status only prints: no reminder is recorded anywhere.          *)
(***************************************************************************)
MaxSweeps == 2
MaxSweepRows == 2

TwilioOutcomes == {"created", "raises"}
SweepFaults == TwilioOutcomes \cup {"unconfigured", "not_found"}

\* SELECT * FROM appointments ORDER BY created_at DESC: every order SQLite
\* may return (rows of one second in any order)
get_all_appointments(store) ==
    LET n == Len(store)
    IN  {[k \in 1..n |-> store[p[k]]] :
            p \in {q \in [1..n -> 1..n] :
                     /\ \A a, b \in 1..n : a # b => q[a] # q[b]
                     /\ \A a, b \in 1..n :
                           a < b => store[q[a]].created_at >= store[q[b]].created_at}}

\* SELECT * FROM appointments WHERE id = ?: the rows found (none or one)
get_appointment(store, appointment_id) ==
    SelectSeq(store, LAMBDA row : row.id = appointment_id)

\* what one call of make_reminder_call did
CallResult(success, requests, result) ==
    [success |-> success, requests |-> requests, result |-> result,
     raised |-> FALSE]

\* the request to calls.create for an appointment, with what Twilio did
CallRequest(appointment, reminder_type, twilio) ==
    LET client_phone == ClientPhone(appointment)
        context == ReminderContext(appointment, reminder_type)
    IN  [to |-> client_phone, from_ |-> TWILIO_PHONE_NUMBER,
         url |-> EncodeContext(context), outcome |-> twilio]

\* mutant: every reminder is announced as a general one
MakeReminderCallGeneral(store, appointment_id, reminder_type, twilio) ==
    LET found == get_appointment(store, appointment_id)
    IN  IF found = <<>> \/ twilio = "not_found"
        THEN CallResult(FALSE, <<>>, "not_found")
        ELSE IF twilio = "unconfigured"
        THEN CallResult(FALSE, <<>>, "unconfigured")
        ELSE CallResult(twilio = "created",
                        <<CallRequest(found[1], "general", twilio)>>, twilio)

\* mutant: an error of calls.create is not caught
MakeReminderCallUncaught(store, appointment_id, reminder_type, twilio) ==
    LET found == get_appointment(store, appointment_id)
    IN  IF found = <<>> \/ twilio = "not_found"
        THEN CallResult(FALSE, <<>>, "not_found")
        ELSE IF twilio = "unconfigured"
        THEN CallResult(FALSE, <<>>, "unconfigured")
        ELSE [CallResult(twilio = "created",
                         <<CallRequest(found[1], reminder_type, twilio)>>,
                         twilio)
                 EXCEPT !.raised = (twilio = "raises")]

\* make_reminder_call: whether it returns True, and the requests it makes
\* to calls.create: none when the appointment cannot be read or the Twilio
\* client or number is missing, else one; every exception is caught
make_reminder_call(store, appointment_id, reminder_type, twilio) ==
    LET found == get_appointment(store, appointment_id)
    IN  IF found = <<>> \/ twilio = "not_found"
        THEN CallResult(FALSE, <<>>, "not_found")
        ELSE IF twilio = "unconfigured"
        THEN CallResult(FALSE, <<>>, "unconfigured")
        ELSE CallResult(twilio = "created",
                        <<CallRequest(found[1], reminder_type, twilio)>>, twilio)

\* mutant: an appointment whose time does not parse is reminded all the same
RemindUnparsed(appointment, store, now, twilio) ==
    LET parsed == parse_appointment_time(appointment.appointment_time, now)
        should_remind == IF parsed.ok
                         THEN should_send_reminder(parsed.datetime, now)
                         ELSE "thirty_min_before"
    IN  IF should_remind = "False" THEN CallResult(FALSE, <<>>, "not_due")
        ELSE make_reminder_call(store, appointment.id, should_remind, twilio)

\* the body of the sweep's loop for one appointment
Remind(appointment, store, now, twilio) ==
    LET parsed == parse_appointment_time(appointment.appointment_time, now)
        should_remind == IF parsed.ok
                         THEN should_send_reminder(parsed.datetime, now)
                         ELSE "False"
    IN  IF ~parsed.ok THEN CallResult(FALSE, <<>>, "unparseable")
        ELSE IF should_remind = "False" THEN CallResult(FALSE, <<>>, "not_due")
        ELSE make_reminder_call(store, appointment.id, should_remind, twilio)

\* one pass of the sweep's loop: done is what the earlier passes did, r
\* what make_reminder_call did for this appointment
LoopBody(done, appointment, r) ==
    IF done.raised THEN done
    ELSE [requests |-> done.requests \o r.requests,
          evaluated |-> Append(done.evaluated,
                               [id |-> appointment.id, result |-> r.result]),
          reminders_sent |-> done.reminders_sent
                             + (IF r.success THEN 1 ELSE 0),
          raised |-> r.raised]

\* check_upcoming_appointments over the rows read: the requests it makes
\* and the appointments it evaluates, in the order of the rows, and the
\* number it returns; twilio[id] is what happens to the call for
\* appointment id.  An exception that leaves the loop's body ends the sweep.
check_upcoming_appointments(rows, store, now, twilio) ==
    LET after[k \in 0..Len(rows)] ==
            IF k = 0
            THEN [requests |-> <<>>, evaluated |-> <<>>, reminders_sent |-> 0,
                  raised |-> FALSE]
            ELSE LoopBody(after[k - 1], rows[k],
                          Remind(rows[k], store, now, twilio[rows[k].id]))
    IN  after[Len(rows)]

SweepsDone == IF scheduler.op = "idle" THEN 0 ELSE scheduler.sweeps

\* mutant: a reminder already requested is not requested again
SweepOncePerWindow(outcomes) ==
    /\ scheduler.op \in {"idle", "due"}
    /\ \E rows \in get_all_appointments(appointments) :
       \E twilio \in [{appointments[i].id : i \in DOMAIN appointments} -> outcomes] :
          LET swept == check_upcoming_appointments(rows, appointments, clock,
                                                   twilio)
              fresh == SelectSeq(swept.requests,
                          LAMBDA r : \A k \in DOMAIN reminder_calls :
                                        reminder_calls[k].url # r.url)
          IN  /\ reminder_calls' = reminder_calls \o fresh
              /\ scheduler' = [op |-> "sweep", sweeps |-> SweepsDone + 1,
                               at |-> clock, rows |-> rows,
                               requests |-> fresh,
                               evaluated |-> swept.evaluated,
                               reminders_sent |-> swept.reminders_sent]
    /\ UNCHANGED <<appointments, last_id, conversation_queues, chat_history,
                   twiml, phase, request, local, last, handlers, clock>>

\* one run of check_upcoming_appointments, at startup or when it is due,
\* where each call meets one of these outcomes
SweepWith(outcomes) ==
    /\ scheduler.op \in {"idle", "due"}
    /\ \E rows \in get_all_appointments(appointments) :
       \E twilio \in [{appointments[i].id : i \in DOMAIN appointments} -> outcomes] :
       \E swept \in {check_upcoming_appointments(rows, appointments, clock,
                                                 twilio)} :
              /\ reminder_calls' = reminder_calls \o swept.requests
              /\ scheduler' = [op |-> IF swept.raised THEN "crashed" ELSE "sweep",
                               sweeps |-> SweepsDone + 1,
                               at |-> clock, rows |-> rows,
                               requests |-> swept.requests,
                               evaluated |-> swept.evaluated,
                               reminders_sent |-> swept.reminders_sent]
    /\ UNCHANGED <<appointments, last_id, conversation_queues, chat_history,
                   twiml, phase, request, local, last, handlers, clock>>

\* a sweep with Twilio configured and the database readable
Sweep == SweepWith(TwilioOutcomes)

\* a sweep where the database may fail to return an appointment and the
\* Twilio client or number may be missing
FaultySweep == SweepWith(SweepFaults)

\* schedule.every(15).minutes with run_pending once a minute: the next
\* sweep is due 15 to 16 minutes after the last
SchedulerWaits ==
    /\ scheduler.op = "sweep"
    /\ scheduler.sweeps < MaxSweeps
    /\ \E wait \in {15 * 60, 16 * 60} : clock' = clock + wait
    /\ scheduler' = [op |-> "due", sweeps |-> scheduler.sweeps]
    /\ UNCHANGED <<appointments, last_id, conversation_queues, chat_history,
                   twiml, phase, request, local, last, handlers, reminder_calls>>

SweepNext == Sweep \/ SchedulerWaits

\* the startup sweep alone
FaultySweepNext == FaultySweep

\* appointment times of the stores the sweeps run over: two that parse,
\* one with "PM" and one that names no time
SweepTexts ==
    {ClockText("Monday", TwoDigits(9), 0), ClockText("Sunday", Digits(8), 50),
     <<"Monday", AT, "4", SP, "P", "M">>, <<"Tue">>}

SweepStatuses == {"NULL", "cancelled"}

SweepRow(id, time, status) ==
    [Appointment(id, <<"Ann">>, time, <<>>,
                 IF id % 2 = 1 THEN "+15550101" ELSE "", id)
        EXCEPT !.status = status]

SweepStores ==
    UNION {{[i \in 1..n |-> SweepRow(i, times[i], statuses[i])] :
               times \in [1..n -> SweepTexts],
               statuses \in [1..n -> SweepStatuses]} :
             n \in 0..MaxSweepRows}

\* readings of the clock around the two windows of the texts above
SweepNows ==
    {At(day, h, m, sec) :
        day \in {0, 5, 6}, h \in {8, 20}, m \in {20, 30, 50},
        sec \in SampleSeconds}

\* the reminder process starts over a database of appointments
SweepInit ==
    /\ InitWith({}, SweepStores)
    /\ clock \in SweepNows
    /\ scheduler = [op |-> "idle"]
    /\ reminder_calls = <<>>

SweepSpec == SweepInit /\ [][SweepNext]_vars

\* the stores and clock readings of the sweeps that meet faults: every
\* appointment booked, the clock where one of the texts is due or just not
FaultyStores ==
    {store \in SweepStores : \A i \in DOMAIN store : store[i].status = "NULL"}

FaultyNows ==
    {At(5, 20, 50, 0), At(0, 8, 30, 0), At(6, 8, 20, 0), At(0, 8, 20, 0)}

FaultySweepInit ==
    /\ InitWith({}, FaultyStores)
    /\ clock \in FaultyNows
    /\ scheduler = [op |-> "idle"]
    /\ reminder_calls = <<>>

FaultySweepSpec == FaultySweepInit /\ [][FaultySweepNext]_vars

\* the days the reminder process is followed over
MaxDays == 14

\* the moment the appointments of the store were booked: a Sunday, 08:20
BookedAt == At(6, 8, 20, 0)

\* the reminder process is stopped (KeyboardInterrupt) and started again
\* some days later
DownTimes == {days * SecondsPerDay : days \in 1..7}

SchedulerRestarts ==
    /\ scheduler.op = "sweep"
    /\ \E down \in DownTimes :
          /\ clock + down < MaxDays * SecondsPerDay
          /\ clock' = clock + down
    /\ scheduler' = [op |-> "idle"]
    /\ UNCHANGED <<appointments, last_id, conversation_queues, chat_history,
                   twiml, phase, request, local, last, handlers, reminder_calls>>

WeekNext == Sweep \/ SchedulerWaits \/ SchedulerRestarts

\* one appointment, just booked
WeekStores == {store \in FaultyStores : Len(store) = 1}

WeekInit ==
    /\ InitWith({}, WeekStores)
    /\ clock = BookedAt
    /\ scheduler = [op |-> "idle"]
    /\ reminder_calls = <<>>

WeekSpec == WeekInit /\ [][WeekNext]_vars

(***************************************************************************)
(* Vocabulary of the properties.                                           *)
(***************************************************************************)
TurnOps == {"handle_input", "duplicate"}

\* the last step was a voice turn in which the LLM answered
AnsweredTurn(log) == log.op \in TurnOps /\ log.reply \notin {<<>>, LLMRaises}

\* the directive priority of the protocol
Priority == <<CHECK, BOOKED, CANCEL, RESCHEDULE, CONFIRMED, ENDED>>
PriorityBranch ==
    <<"check", "booked", "cancel", "reschedule", "confirmed", "ended">>
ReminderOnly == {CANCEL, RESCHEDULE, CONFIRMED}
StatusBranches == {"cancel", "reschedule", "confirmed"}

\* the directives of a reply that may be acted upon in a turn
Honoured(reply, hasContext) ==
    {k \in DOMAIN Priority :
        Contains(reply, Priority[k]) /\ (Priority[k] \in ReminderOnly => hasContext)}

ExpectedBranch(reply, hasContext) ==
    LET h == Honoured(reply, hasContext)
    IN  IF h = {} THEN "plain"
        ELSE PriorityBranch[CHOOSE k \in h : \A j \in h : k <= j]

\* the store after one application of the side effect of a branch
OneSideEffect(branch, old, new, id) ==
    CASE branch \in {"check", "ended", "plain"} -> new = old
      [] branch = "booked" ->
            /\ Len(new) \in {Len(old), Len(old) + 1}
            /\ SubSeq(new, 1, Len(old)) = old
      [] OTHER ->
            /\ Len(new) = Len(old)
            /\ \A i \in DOMAIN old : new[i] # old[i] => old[i].id = id

\* the appointment id of the reminder context of call c, 0 without context
ContextId(req) == IF HasContext(req.token) THEN DecodeContext(req.token).appointment_id ELSE 0

\* the record of the store with this id
Row(store, id) == store[CHOOSE i \in DOMAIN store : store[i].id = id]
HasRow(store, id) == \E i \in DOMAIN store : store[i].id = id

HoldsReminderDirective(reply) == \E t \in ReminderOnly : Contains(reply, t)

HoldsOnlyReminderDirectives(reply) ==
    /\ HoldsReminderDirective(reply)
    /\ \A t \in Sentinels \ ReminderOnly : ~Contains(reply, t)

ExpectedStatus(reply) ==
    IF Contains(reply, CANCEL) THEN "cancelled"
    ELSE IF Contains(reply, RESCHEDULE) THEN "rescheduled"
    ELSE "confirmed"

C3_MalformedBookingDegrades ==
    (AnsweredTurn(last) /\ last.branch = "booked"
       /\ Len(BookedFields(last.reply)) # 3) =>
          /\ last.outcome = "ok"
          /\ last.op = "handle_input" =>
                twiml[last.call][1].msg.kind = "booking_confirmation"

SecondField(reply) ==
    LET text == Split(reply, RESCHEDULE)[2]
        i == IndexOf(text, PIPE)
        rest == SubSeq(text, i + 1, Len(text))
        j == IndexOf(rest, PIPE)
    IN  IF i = 0 THEN <<>>
        ELSE Strip(IF j = 0 THEN rest ELSE SubSeq(rest, 1, j - 1))

HasSecondField(reply) == Contains(Split(reply, RESCHEDULE)[2], PIPE)

Reprompting(response) ==
    /\ response # <<>>
    /\ response[1].verb = "Gather"
    /\ response[1].says = <<Msg("reprompt")>>

C10_EndedCallHasNoState ==
    \A c \in Calls : phase[c] = "ended" => c \notin DOMAIN conversation_queues

(***************************************************************************)
(* C11: a turn dispatched as CONVERSATION_ENDED says the farewell and      *)
(* hangs up without a further Gather and leaves no state for the call; a   *)
(* later turn for the same call identifier loads the fresh state (no       *)
(* intent, no booking stage) and stores what a first turn stores.          *)
(***************************************************************************)
EndedTurn(log) ==
    log.op \in TurnOps /\ log.branch = "ended" /\ log.outcome = "ok"

SameQueue(old, new, d) ==
    /\ d \in DOMAIN old <=> d \in DOMAIN new
    /\ d \in DOMAIN old => new[d] = old[d]

C12_PerCallIsolation ==
    [][\A c \in Calls :
          (last'.call = c /\ last'.op \in {"voice_webhook", "handle_input"}) =>
             /\ last'.reply # <<>> => chat_history \subseteq {c}
             /\ \A d \in Calls \ {c} :
                   SameQueue(conversation_queues, conversation_queues', d)]_vars

(***************************************************************************)
(* C13: a handle_input turn whose reminder_context token does not decode   *)
(* runs as the same turn without token: the LLM gets the bare utterance,   *)
(* the branch is the one of a turn without context (cancel, reschedule and *)
(* confirm directives are not acted upon), and store, state, outcome and   *)
(* spoken messages are those of the turn without token, so the turn ends   *)
(* in the apology only where the inbound turn does.                        *)
(***************************************************************************)
Spoken(response) ==
    [i \in DOMAIN response |->
        CASE response[i].verb = "Say" -> <<"Say", <<response[i].msg>>>>
          [] response[i].verb = "Gather" -> <<"Gather", response[i].says>>
          [] OTHER -> <<response[i].verb, <<>>>>]

C14_BadTokenFirstTurnIsInbound ==
    \A c \in Calls :
        (last.call = c /\ last.op = "voice_webhook"
           /\ request[c].token = BadToken) =>
           /\ Spoken(twiml[c]) = Spoken(voice_webhook(NoToken, last.reply))
           /\ last.reply # LLMRaises => phase[c] = "listening"

(***************************************************************************)
(* C15 as claimed: every voice turn in which a failure was raised answers  *)
(* with the generic apology followed by a hangup.                          *)
(***************************************************************************)
VoiceTurn(log) == log.op \in {"voice_webhook", "handle_input"}

FailedTurn(log) == log.outcome = "error" \/ log.reply = LLMRaises

C15_EveryFailureGetsTheApology ==
    \A c \in Calls :
        (last.call = c /\ VoiceTurn(last) /\ FailedTurn(last)) =>
           twiml[c] = ApologyResponse

(***************************************************************************)
(* C15 amended: every voice turn answers with something spoken; a turn in  *)
(* which a failure was raised ends the call, with the generic apology and  *)
(* a hangup, except in the first turn of a reminder call, where the        *)
(* failure is answered by the reminder-trouble message alone.              *)
(***************************************************************************)
SaysSomething(response) ==
    \E i \in DOMAIN response :
        \/ response[i].verb = "Say"
        \/ response[i].verb = "Gather" /\ response[i].says # <<>>

C15_FailuresAreAnswered ==
    \A c \in Calls :
        (last.call = c /\ VoiceTurn(last)) =>
           /\ SaysSomething(twiml[c])
           /\ FailedTurn(last) =>
                 /\ phase[c] = "ended"
                 /\ twiml[c] =
                       IF last.op = "voice_webhook" /\ request[c].token # NoToken
                       THEN <<Say(Msg("reminder_trouble"))>>
                       ELSE ApologyResponse

\* the LLM failed in a handle_input turn and the apology was said
C15_Witness ==
    /\ last.op = "handle_input"
    /\ last.reply = LLMRaises
    /\ twiml[last.call] = ApologyResponse
    /\ phase[last.call] = "ended"

(***************************************************************************)
(* C16: for "<Weekday> at <H>:<MM>" with a weekday word in any case, an    *)
(* hour 0..23 and a minute 0..59, parse_appointment_time returns a         *)
(* datetime on the named weekday at H:MM:00, after now and 7 days after    *)
(* now at most: 7 days after today when the weekday is today's and H:MM is *)
(* not later than now's hour and minute, else on the first such weekday    *)
(* from today on.                                                          *)
(***************************************************************************)
WeekdayOf(word) ==
    (CHOOSE i \in DOMAIN WeekdayNames :
        Lower(<<WeekdayNames[i]>>) = Lower(<<word>>)) - 1

DateOf(t) == t \div SecondsPerDay

\* the text is "<Weekday> at <H>:<MM>" with one or two hour digits
IsClockText(text) ==
    /\ Len(text) \in {6, 7}
    /\ text[1] \in WeekdayWords
    /\ text[2] = AT
    /\ text[Len(text) - 2] = COLON
    /\ isdigit(SubSeq(text, 3, Len(text) - 3))
    /\ isdigit(SubSeq(text, Len(text) - 1, Len(text)))
    /\ DigitsValue(SubSeq(text, 3, Len(text) - 3)) <= 23
    /\ DigitsValue(SubSeq(text, Len(text) - 1, Len(text))) <= 59

C16_ParsedTimeIsNextOccurrence ==
    (scheduler.op = "parse" /\ IsClockText(scheduler.text)) =>
       /\ scheduler.parsed.ok
       /\ LET text == scheduler.text
              day == text[1]
              h == DigitsValue(SubSeq(text, 3, Len(text) - 3))
              m == DigitsValue(SubSeq(text, Len(text) - 1, Len(text)))
              t == scheduler.parsed.datetime
              passed == h < hour_of(clock)
                           \/ (h = hour_of(clock) /\ m <= minute_of(clock))
          IN  /\ weekday(t) = WeekdayOf(day)
              /\ hour_of(t) = h /\ minute_of(t) = m /\ second_of(t) = 0
              /\ clock < t
              /\ t <= clock + 7 * SecondsPerDay
              /\ DateOf(t) - DateOf(clock) =
                    IF WeekdayOf(day) = weekday(clock) /\ passed
                    THEN 7
                    ELSE (WeekdayOf(day) - weekday(clock)) % 7

\* a time of today's weekday that has just passed was put a week ahead
C16_Witness ==
    /\ scheduler.op = "parse"
    /\ scheduler.text = ClockText("MONDAY", Digits(9), 0)
    /\ clock = At(0, 9, 0, 30)
    /\ scheduler.parsed.ok
    /\ scheduler.parsed.datetime = At(7, 9, 0, 0)

(***************************************************************************)
(* C17: "<Weekday> at <H> PM" parses, to hour H + 12 of the next           *)
(* occurrence of the weekday when H is below 12 and to hour 12 when H is   *)
(* 12, minute 0.                                                           *)
(***************************************************************************)
C17_PmHourIsAdjusted ==
    \A day \in {"Monday", "Wednesday"}, h \in {4, 11, 12} :
        (scheduler.op = "parse"
           /\ scheduler.text = <<day, AT>> \o Digits(h) \o <<SP, "P", "M">>) =>
           /\ scheduler.parsed.ok
           /\ weekday(scheduler.parsed.datetime) = WeekdayOf(day)
           /\ hour_of(scheduler.parsed.datetime) = IF h < 12 THEN h + 12 ELSE 12
           /\ minute_of(scheduler.parsed.datetime) = 0

(***************************************************************************)
(* C18: should_send_reminder answers "hours_36_before" exactly when the    *)
(* time until the appointment is between 35.75 and 36.25 hours, limits     *)
(* included, "thirty_min_before" exactly when it is between 0.42 and 0.58  *)
(* hours, limits included, and no reminder otherwise; no time lies in both *)
(* windows.                                                                *)
(***************************************************************************)
InFarWindow(seconds) ==
    35 * 3600 + 45 * 60 <= seconds /\ seconds <= 36 * 3600 + 15 * 60

\* 0.42 h = 25 min 12 s, 0.58 h = 34 min 48 s
InNearWindow(seconds) ==
    25 * 60 + 12 <= seconds /\ seconds <= 34 * 60 + 48

MondayAtNine == ClockText("Monday", TwoDigits(9), 0)

ClassifiedMondayAtNine ==
    scheduler.op = "classify" /\ scheduler.text = MondayAtNine

C19_FortyMinutesIsNear ==
    ClassifiedMondayAtNine =>
       /\ clock = At(5, 20, 50, 0) => scheduler.kind = "hours_36_before"
       /\ clock = At(0, 8, 20, 0) => scheduler.kind = "thirty_min_before"
       /\ clock = At(0, 7, 0, 0) => scheduler.kind = "False"

(***************************************************************************)
(* C19 amended: "Monday at 09:00" is far-ahead 36 hours 10 minutes         *)
(* earlier, no reminder 40 minutes earlier and 2 hours earlier, and        *)
(* near-ahead 30 minutes earlier.                                          *)
(***************************************************************************)
C19_FortyMinutesIsNoReminder ==
    ClassifiedMondayAtNine =>
       /\ clock = At(5, 20, 50, 0) => scheduler.kind = "hours_36_before"
       /\ clock = At(0, 8, 20, 0) => scheduler.kind = "False"
       /\ clock = At(0, 7, 0, 0) => scheduler.kind = "False"
       /\ clock = At(0, 8, 30, 0) => scheduler.kind = "thirty_min_before"

\* "Monday at 09:00" was classified on Monday at 08:20:00
C19_Witness ==
    /\ ClassifiedMondayAtNine
    /\ clock = At(0, 8, 20, 0)
    /\ scheduler.datetime = At(0, 9, 0, 0)
    /\ scheduler.kind = "False"

\* the classification the sweep at this reading of the clock gives an
\* appointment: "unparseable", "False" or the reminder type
ClassificationOf(appointment, now) ==
    LET parsed == parse_appointment_time(appointment.appointment_time, now)
    IN  IF parsed.ok THEN should_send_reminder(parsed.datetime, now)
        ELSE "unparseable"

RequestsFor(requests, appointment) ==
    SelectSeq(requests, LAMBDA r : r.url.json.appointment_id = appointment.id)

SweepJustRan == scheduler'.op = "sweep" /\ scheduler.op # "sweep"

SweepEnded ==
    /\ scheduler'.op \in {"sweep", "crashed"}
    /\ scheduler.op \notin {"sweep", "crashed"}

FailureResults == {"unparseable", "not_found", "unconfigured", "raises"}

\* C21: a failure while handling one appointment (unparseable time,
\* appointment not found, missing telephony configuration, error of the call
\* request) does not end the sweep: every appointment read is evaluated, in
\* the order read, each appointment that is due and can be called gets its
\* request, and the number returned is the number of calls created
C21_FailuresDoNotAbortTheSweep ==
    [][SweepEnded =>
         LET rows == scheduler'.rows
             evaluated == scheduler'.evaluated
         IN  /\ scheduler'.op = "sweep"
             /\ Len(rows) = Len(appointments)
             /\ Len(evaluated) = Len(rows)
             /\ \A k \in DOMAIN rows :
                   /\ evaluated[k].id = rows[k].id
                   /\ evaluated[k].result \in {"created", "raises"}
                        <=> RequestsFor(scheduler'.requests, rows[k]) # <<>>
                   /\ ClassificationOf(rows[k], clock) = "unparseable"
                        <=> evaluated[k].result = "unparseable"
                   /\ ClassificationOf(rows[k], clock) = "False"
                        <=> evaluated[k].result = "not_due"
             /\ scheduler'.reminders_sent
                  = Cardinality({k \in DOMAIN evaluated :
                                    evaluated[k].result = "created"})
             /\ scheduler'.reminders_sent
                  = Len(SelectSeq(scheduler'.requests,
                                  LAMBDA r : r.outcome = "created"))]_vars

\* a sweep whose first appointment failed went on to call the second
C21_Witness ==
    /\ scheduler.op = "sweep"
    /\ Len(scheduler.evaluated) = 2
    /\ scheduler.evaluated[1].result \in FailureResults
    /\ scheduler.evaluated[2].result = "created"
    /\ scheduler.reminders_sent = 1

RequestedBefore(appointment, kind) ==
    \E k \in DOMAIN reminder_calls :
        reminder_calls[k].url = EncodeContext(ReminderContext(appointment, kind))

\* C22: a sweep leaves the appointment store as it was and consults no
\* record of earlier reminders: an appointment that is in the window for
\* which an earlier sweep requested its call is requested again
C22_SweepsDoNotDeduplicate ==
    [][SweepJustRan =>
         /\ appointments' = appointments
         /\ \A i \in DOMAIN appointments :
               LET appointment == appointments[i]
                   kind == ClassificationOf(appointment, clock)
               IN  kind \in {"hours_36_before", "thirty_min_before"}
                   /\ RequestedBefore(appointment, kind)
                   => /\ RequestsFor(scheduler'.requests, appointment) # <<>>
                      /\ Len(RequestsFor(reminder_calls', appointment)) >= 2]_vars

\* two successive sweeps each had the same reminder call created
C22_Witness ==
    /\ scheduler.op = "sweep"
    /\ scheduler.sweeps = 2
    /\ Len(reminder_calls) = 2
    /\ reminder_calls[1].url = reminder_calls[2].url
    /\ reminder_calls[1].outcome = "created"
    /\ reminder_calls[2].outcome = "created"
    /\ scheduler.requests = <<reminder_calls[2]>>

\* the last step was a voice turn that stored the booking of its reply
BookingTurn(log) ==
    /\ log.op \in TurnOps \cup {"late"}
    /\ log.branch = "booked"
    /\ Len(BookedFields(log.reply)) = 3

Stripped(field) == field = Strip(field)

DispatchOps == {"handle_input", "sms_webhook", "local_turn"}

\* the last step dispatched a reply of the LLM in one of the channels
Dispatched(log) ==
    /\ log.op \in DispatchOps
    /\ log.reply \notin {<<>>, LLMRaises}
    /\ log.branch # "none"

\* C25: the voice handler, the SMS handler and the local loop test the
\* sentinels in the same priority order, CONVERSATION_ENDED last: each acts
\* on the first directive of that order a reply holds, so a reply holding
\* APPOINTMENT_BOOKED: and CONVERSATION_ENDED is a booking in all three
C25_SamePriorityInEveryChannel ==
    Dispatched(last) =>
        last.branch
          = ExpectedBranch(last.reply,
                           last.op = "handle_input"
                           /\ HasContext(request[last.call].token))

Ids(store) == {store[i].id : i \in DOMAIN store}

\* C26: no turn of any channel deletes an appointment: the ids of the store
\* only grow, a new id is unique and larger than every earlier one, only a
\* booking adds a record, only a cancel, reschedule or confirm changes one,
\* and the id and name of a record never change
C26_TurnsNeverDeleteAppointments ==
    [][/\ Ids(appointments) \subseteq Ids(appointments')
       /\ Cardinality(Ids(appointments')) = Len(appointments')
       /\ \A new \in Ids(appointments') \ Ids(appointments) :
             /\ \A old \in Ids(appointments) : new > old
             /\ new > last_id
       /\ Ids(appointments') # Ids(appointments) =>
             /\ last'.branch = "booked"
             /\ Cardinality(Ids(appointments')) = Cardinality(Ids(appointments)) + 1
       /\ \A id \in Ids(appointments) :
             /\ Row(appointments', id).name = Row(appointments, id).name
             /\ Row(appointments', id) # Row(appointments, id) =>
                   /\ last'.branch \in StatusBranches
                   /\ id = ContextId(request'[last'.call])
                   /\ Row(appointments', id).notes = Row(appointments, id).notes
                   /\ Row(appointments', id).phone_number
                        = Row(appointments, id).phone_number]_vars

\* a reminder call rescheduled the stored appointment and the local loop
\* booked a second one
C26_Witness ==
    /\ Len(appointments) = 2
    /\ appointments[1].id = 1
    /\ appointments[1].status = "rescheduled"
    /\ appointments[2].id = 2
    /\ appointments[2].phone_number = "Unknown"
    /\ last.op = "sms_webhook"

\* the party at the other end of the call of a webhook request: the caller
\* of an inbound call, the recipient of an outbound one
RemoteParty(req) == IF req.From = TwilioPhone THEN req.To ELSE req.From

CallbackTokens(response) ==
    {response[i].token :
        i \in {j \in DOMAIN response : response[j].verb \in {"Gather", "Redirect"}}}

SpokenReplies(response) ==
    {response[i].says[j].text :
        i \in {k \in DOMAIN response : response[k].verb = "Gather"},
        j \in {1}}

OpeningSentinels == {CANCEL, RESCHEDULE, CONFIRMED, ENDED}

\* C29: the opening line spoken on the first turn of a reminder call holds
\* no directive sentinel: a reply of the LLM that holds CANCEL_APPOINTMENT:,
\* RESCHEDULE_APPOINTMENT:, APPOINTMENT_CONFIRMED: or CONVERSATION_ENDED is
\* replaced by a plain reminder greeting
C29_OpeningLineHasNoSentinel ==
    \A c \in Calls :
       (last.op = "voice_webhook" /\ last.call = c
        /\ HasContext(request[c].token) /\ HasGather(twiml[c]))
       => \A text \in SpokenReplies(twiml[c]) :
             \A sentinel \in OpeningSentinels : ~Contains(text, sentinel)

\* the response asks 'Is there anything else I can help you with?' while
\* it listens
FollowUpSaid(response) ==
    \E i \in DOMAIN response :
        /\ response[i].verb = "Gather"
        /\ \E j \in DOMAIN response[i].says : response[i].says[j] = Msg("follow_up")

\* the fixed messages that end in a question to the caller
QuestionKinds ==
    {"booking_confirmation", "cancel_ack", "reschedule_ack", "confirm_ack",
     "check_none"}

\* the last step was a voice turn of call c that goes on listening
ContinuedTurn(c) ==
    /\ last.op = "handle_input"
    /\ last.call = c
    /\ last.outcome = "ok"
    /\ last.branch \notin {"no_input", "ended", "none"}

\* the conversation state the turn of call c left in the queue
StateAfter(c) == conversation_queues[c][Len(conversation_queues[c])]

SecondsAhead(appointment, now) ==
    parse_appointment_time(appointment.appointment_time, now).datetime - now

NearCallsFor(appointment) ==
    SelectSeq(RequestsFor(reminder_calls, appointment),
              LAMBDA r : r.url.json.reminder_type = "thirty_min_before")

\* C32: an appointment that a sweep finds already past the near-ahead
\* window (closer than its end), and that the sweep before, 15 minutes or
\* more earlier, saw more than 35 minutes ahead, has had a
\* 'thirty_min_before' reminder call requested
C32_NearWindowIsNeverMissed ==
    scheduler.op = "sweep" /\ scheduler.sweeps >= 2
    => \A i \in DOMAIN appointments :
          LET appointment == appointments[i]
              ahead == SecondsAhead(appointment, scheduler.at)
          IN  /\ ClassificationOf(appointment, scheduler.at) # "unparseable"
              /\ ahead < thirty_min_before_end * 36
              /\ ahead + 15 * 60 > 35 * 60
              => NearCallsFor(appointment) # <<>>

\* the first occurrence of the appointment's weekday and time after it was
\* booked
FirstOccurrence(appointment) ==
    parse_appointment_time(appointment.appointment_time, BookedAt).datetime

\* C33: a sweep that runs after the first occurrence of an appointment's
\* weekday and time since its booking requests no reminder call for it
C33_NoReminderAfterTheOccurrence ==
    scheduler.op = "sweep"
    => \A i \in DOMAIN appointments :
          LET appointment == appointments[i]
          IN  /\ ClassificationOf(appointment, BookedAt) # "unparseable"
              /\ FirstOccurrence(appointment) < scheduler.at
              => RequestsFor(scheduler.requests, appointment) = <<>>

AckStatus ==
    [cancel |-> "cancelled", reschedule |-> "rescheduled",
     confirmed |-> "confirmed"]

\* the last step was a voice turn that spoke the acknowledgement of a
\* cancellation, a reschedule or a confirmation
AcknowledgedTurn(c) ==
    /\ last.op \in TurnOps
    /\ last.call = c
    /\ last.outcome = "ok"
    /\ last.branch \in DOMAIN AckStatus
    /\ twiml[c] # <<>>
    /\ twiml[c][1].verb = "Say"
    /\ twiml[c][1].msg.kind \in {"cancel_ack", "reschedule_ack", "confirm_ack"}

StoredState(queues, c) == LoadState(queues, c).state

HandlersDone ==
    /\ DOMAIN handlers = Threads
    /\ \A t \in Threads : handlers[t].pc = "done" /\ handlers[t].outcome = "ok"

C37_EmptyUtteranceChangesNothing ==
    [][\A c \in Calls :
          /\ last'.op = "handle_input"
          /\ last'.call = c
          /\ request'[c].SpeechResult = <<>>
          => /\ chat_history' = chat_history
             /\ conversation_queues' = conversation_queues
             /\ appointments' = appointments
             /\ last_id' = last_id
             /\ twiml'[c] =
                  <<Gather(ActionToken(request'[c].token), <<Msg("reprompt")>>),
                    Say(Msg("no_input_farewell")), Hangup>>]_vars

\* a request without SpeechResult, carrying a reminder context, was answered
\* over a store that holds appointments
C37_Witness ==
    /\ last.op = "handle_input"
    /\ last.branch = "no_input"
    /\ request[last.call].SpeechResult = <<>>
    /\ HasContext(request[last.call].token)
    /\ appointments # <<>>
    /\ twiml[last.call][1].verb = "Gather"
    /\ chat_history = {}

Intents ==
    {"None", "booking", "check_appointments", "booking_complete",
     "cancellation_complete", "reschedule_complete", "confirmation_complete"}

BookingStages == {"None", "need_name", "need_time", "need_notes", "complete"}

\* the ConversationStates stored for call c
StoredStates(queues, c) ==
    IF c \in DOMAIN queues
    THEN {queues[c][k] : k \in DOMAIN queues[c]}
    ELSE {}

Completed(queues, c) ==
    \E state \in StoredStates(queues, c) : state.booking_stage = "complete"

====
